---- MODULE Spec2Model ----
(***************************************************************************)
(* Model of source_map_1/extract_kml.py (KMLParser and the multi-map merge *)
(* of GoogleMapsKMLDownloader).                                            *)
(*                                                                         *)
(* Three specifications share the variables:                               *)
(*   SpecCoord  parse_coordinates on bounded coordinate strings, called    *)
(*              directly and through a one-Placemark document;             *)
(*   SpecWalk   extract_placemarks_from_kml on bounded document trees;     *)
(*   Spec       download_multiple_maps_to_csv, one step per loop iteration.*)
(*                                                                         *)
(* Python values: a str used for a name or a folder path is a TLA+ string, *)
(* with None written PyNone; a coordinate text is a sequence of one-       *)
(* character strings inside a record that says whether it is None; a float *)
(* is the decimal m / 10^e it was written as (the strings of the model     *)
(* have at most MaxLen characters, where decimal -> double is injective    *)
(* and order preserving).                                                  *)
(***************************************************************************)
EXTENDS Integers, Sequences, FiniteSets, TLC

\* ---------------------------------------------------------------- bounds
\* Longest coordinate string of SpecCoord.
MaxLen == 4
\* Most nodes of a document tree of SpecWalk.
MaxNodes == 3
\* Most sources in map_sources (Spec).
NumSources == 3
\* Most Placemarks in one source's document (Spec).
MaxRecords == 2
\* Most requests in the JSON file (SpecWrite).
MaxRequests == 3

\* ------------------------------------------------------- Python values
PyNone == "<None>"

\* bool(x) of a str-or-None: None and "" are falsy.
Truthy(x) == x # PyNone /\ x # ""

\* How an f-string renders a str-or-None.
FStr(x) == IF x = PyNone THEN "None" ELSE x

\* An Optional[float]: none, or the decimal m / 10^e.
NoFloat == [none |-> TRUE, m |-> 0, e |-> 0]

Float(m, e) == [none |-> FALSE, m |-> m, e |-> e]

\* An Optional[str] over characters (Element.text of <coordinates>).
NoText == [isnone |-> TRUE, text |-> <<>>]

Text(s) == [isnone |-> FALSE, text |-> s]

\* The characters coordinate strings are built from.
Chars == {"1", "9", "-", ".", ",", " ", "x"}

Digits == {"1", "9"}

DigitVal(c) == IF c = "1" THEN 1 ELSE 9

\* str.strip(): leading and trailing whitespace removed.
RECURSIVE LStrip(_)
LStrip(s) == IF s # <<>> /\ Head(s) = " " THEN LStrip(Tail(s)) ELSE s

RECURSIVE RStrip(_)
RStrip(s) ==
    IF s # <<>> /\ s[Len(s)] = " " THEN RStrip(SubSeq(s, 1, Len(s) - 1)) ELSE s

Strip(s) == RStrip(LStrip(s))

\* str.split(','): the pieces between commas, at least one piece.
RECURSIVE SplitFrom(_, _)
SplitFrom(s, cur) ==
    IF s = <<>> THEN <<cur>>
    ELSE IF Head(s) = "," THEN <<cur>> \o SplitFrom(Tail(s), <<>>)
    ELSE SplitFrom(Tail(s), Append(cur, Head(s)))

Split(s) == SplitFrom(s, <<>>)

\* The digits of s read as a decimal integer.
RECURSIVE DigitsVal(_, _)
DigitsVal(s, acc) ==
    IF s = <<>> THEN acc ELSE DigitsVal(Tail(s), 10 * acc + DigitVal(Head(s)))

PosOfDot(s) == CHOOSE k \in 1..Len(s) : s[k] = "."

RemoveAt(s, k) == SubSeq(s, 1, k - 1) \o SubSeq(s, k + 1, Len(s))

\* float(s): surrounding whitespace is ignored, then an optional sign and
\* digits with at most one decimal point and at least one digit; anything
\* else raises ValueError.
PyFloat(s) ==
    LET t    == Strip(s)
        neg  == t # <<>> /\ Head(t) = "-"
        body == IF neg THEN Tail(t) ELSE t
        dots == {k \in 1..Len(body) : body[k] = "."}
        ok   == /\ \A k \in 1..Len(body) : body[k] \in Digits \cup {"."}
                /\ Cardinality(dots) <= 1
                /\ \E k \in 1..Len(body) : body[k] \in Digits
        e    == IF dots = {} THEN 0 ELSE Len(body) - PosOfDot(body)
        ds   == IF dots = {} THEN body ELSE RemoveAt(body, PosOfDot(body))
        mag  == DigitsVal(ds, 0)
    IN  IF ok
        THEN [exc |-> "none", val |-> Float(IF neg THEN 0 - mag ELSE mag, e)]
        ELSE [exc |-> "ValueError", val |-> NoFloat]

\* ------------------------------------------------- KMLParser.parse_coordinates
\* The try block (lines 40-43): what it returns, or the exception raised.
parse_coordinates_try(coord_text) ==
    LET parts == Split(Strip(coord_text.text))
    IN  IF Len(parts) >= 2
        THEN LET f1 == PyFloat(parts[2])
                 f0 == PyFloat(parts[1])
             IN  IF f1.exc # "none"
                 THEN [exc |-> f1.exc, latitude |-> NoFloat, longitude |-> NoFloat]
                 ELSE IF f0.exc # "none"
                 THEN [exc |-> f0.exc, latitude |-> NoFloat, longitude |-> NoFloat]
                 ELSE [exc |-> "none", latitude |-> f1.val, longitude |-> f0.val]
        ELSE [exc |-> "none", latitude |-> NoFloat, longitude |-> NoFloat]

\* parse_coordinates without its except clause: the exception leaves it.
parse_coordinates_reraise(r) == r

\* except (ValueError, IndexError): return None, None (lines 44-46).
parse_coordinates_except(r) ==
    IF r.exc \in {"ValueError", "IndexError"}
    THEN [exc |-> "none", latitude |-> NoFloat, longitude |-> NoFloat]
    ELSE r

\* parse_coordinates: (latitude, longitude), and the exception that leaves it.
parse_coordinates(coord_text) ==
    IF coord_text.isnone \/ coord_text.text = <<>> \/ Strip(coord_text.text) = <<>>
    THEN [exc |-> "none", latitude |-> NoFloat, longitude |-> NoFloat]
    ELSE parse_coordinates_except(parse_coordinates_try(coord_text))

\* ------------------------------------------------------- document trees
\* A parsed document is a sequence of nodes; node 1 is the root and
\* parent is 0 there. The children of a node are the nodes that name it as
\* parent, in increasing index (document) order. kind is what the tag ends
\* with: "Folder", "Placemark", or anything else ("Other"). name is the text
\* of the kml:name child: NameAbsent when there is no such child, PyNone when
\* the child is empty (ElementTree gives text None), else the string.
\* coordinates is the first kml:coordinates element of the subtree. The
\* name, description, styleUrl and coordinates children are themselves
\* elements of other kinds without children, for which process_element does
\* nothing; description and style_url are copied fields left out of Record.
NameAbsent == "<absent>"

CoordAbsent == [elem |-> FALSE, isnone |-> TRUE, text |-> <<>>]

CoordElem(t) == [elem |-> TRUE, isnone |-> t.isnone, text |-> t.text]

Node(k, p, n, c) == [kind |-> k, parent |-> p, name |-> n, coordinates |-> c]

\* The sentinel folder of line 63 (the source writes it in Chinese, "root
\* directory"); no name of the model equals it.
RootLabel == "<root>"

\* for child in element: the children of node n in document order.
RECURSIVE ChildrenFrom(_, _, _)
ChildrenFrom(t, n, k) ==
    IF k > Len(t) THEN <<>>
    ELSE IF t[k].parent = n THEN <<k>> \o ChildrenFrom(t, n, k + 1)
    ELSE ChildrenFrom(t, n, k + 1)

Children(t, n) == ChildrenFrom(t, n, 1)

\* x.text if x is not None else "" (lines 58, 66).
ElemText(name) == IF name = NameAbsent THEN "" ELSE name

\* Line 59: the folder path handed to the children of a Folder.
current_folder_path(folder_path, folder_name) ==
    IF Truthy(folder_path)
    THEN FStr(folder_path) \o "/" \o FStr(folder_name)
    ELSE folder_name

\* Lines 63-85: the dict built for a Placemark.
placemark_data(node, folder_path, source_mid) ==
    LET c == IF node.coordinates.elem
             THEN parse_coordinates(node.coordinates)
             ELSE [exc |-> "none", latitude |-> NoFloat, longitude |-> NoFloat]
    IN  [folder    |-> IF Truthy(folder_path) THEN folder_path ELSE RootLabel,
         name      |-> ElemText(node.name),
         latitude  |-> c.latitude,
         longitude |-> c.longitude,
         source    |-> source_mid]

\* process_element (lines 55-90): the dicts it appends to self.placemarks.
RECURSIVE process_element(_, _, _, _), process_children(_, _, _, _)
process_element(t, n, folder_path, source_mid) ==
    IF t[n].kind = "Folder"
    THEN process_children(t, Children(t, n),
             current_folder_path(folder_path, ElemText(t[n].name)), source_mid)
    ELSE IF t[n].kind = "Placemark"
    THEN <<placemark_data(t[n], folder_path, source_mid)>>
    ELSE process_children(t, Children(t, n), folder_path, source_mid)

process_children(t, kids, folder_path, source_mid) ==
    IF kids = <<>> THEN <<>>
    ELSE process_element(t, Head(kids), folder_path, source_mid)
         \o process_children(t, Tail(kids), folder_path, source_mid)

\* extract_placemarks_from_kml (lines 48-96) on a file that is missing or
\* malformed (kml.ok = FALSE) or parses to kml.tree: the new self.placemarks
\* and the list returned.
extract_placemarks_from_kml(kml, source_mid) ==
    IF kml.ok
    THEN LET ps == process_element(kml.tree, 1, "", source_mid)
         IN  [placemarks |-> ps, returned |-> ps]
    ELSE [placemarks |-> <<>>, returned |-> <<>>]

File(t) == [ok |-> TRUE, tree |-> t]

BadFile == [ok |-> FALSE, tree |-> <<>>]

\* What ET.parse and getroot (lines 52-53) raise for a file: nothing for one
\* that loads, FileNotFoundError for a missing one and ParseError for a
\* malformed one.
LoadErrors(f) ==
    IF f.ok THEN {"none"} ELSE {"FileNotFoundError", "ParseError"}

\* The exceptions the except clause of line 93 handles.
extract_except == {"ParseError", "FileNotFoundError"}

\* extract_placemarks_from_kml without line 50: the walk appends to the list
\* the parser already holds, and a failed load leaves that list as it was.
extract_call_keeping(h, self_ref, f, error, source_mid) ==
    IF error = "none"
    THEN [heap |-> [h EXCEPT ![self_ref] =
                        @ \o extract_placemarks_from_kml(f, source_mid).placemarks],
          self |-> self_ref, ret |-> self_ref, raised |-> "none"]
    ELSE [heap |-> Append(h, <<>>), self |-> self_ref,
          ret |-> Len(h) + 1, raised |-> "none"]

\* extract_placemarks_from_kml emptying the list the parser holds where line
\* 50 makes a new one: every call fills and returns the same list.
extract_call_in_place(h, self_ref, f, error, source_mid) ==
    IF error = "none"
    THEN [heap |-> [h EXCEPT ![self_ref] =
                        extract_placemarks_from_kml(f, source_mid).placemarks],
          self |-> self_ref, ret |-> self_ref, raised |-> "none"]
    ELSE [heap |-> Append([h EXCEPT ![self_ref] = <<>>], <<>>),
          self |-> self_ref, ret |-> Len(h) + 1, raised |-> "none"]

\* extract_placemarks_from_kml (lines 48-96) on the lists of h, for the
\* parser whose self.placemarks is the list self_ref: the lists afterwards,
\* the list self.placemarks then names, the list returned (0 when the call
\* raises) and the exception that leaves the call. Line 50 makes a new
\* list, which the walk fills (line 87) and line 96 returns; line 95
\* returns another new list.
extract_call(h, self_ref, f, error, source_mid) ==
    LET new == Len(h) + 1
    IN  IF error = "none"
        THEN [heap |-> Append(h, extract_placemarks_from_kml(f, source_mid).placemarks),
              self |-> new, ret |-> new, raised |-> "none"]
        ELSE IF error \in extract_except
        THEN [heap |-> h \o << <<>>, <<>> >>, self |-> new,
              ret |-> new + 1, raised |-> "none"]
        ELSE [heap |-> Append(h, <<>>), self |-> new, ret |-> 0,
              raised |-> error]

\* The record of one call in calls.
CallOf(c, source_mid, error) ==
    [source |-> source_mid, error |-> error, raised |-> c.raised,
     ref |-> c.ret,
     snapshot |-> IF c.ret = 0 THEN <<>> ELSE c.heap[c.ret]]

\* ------------------------------------- the merge of download_multiple_maps_to_csv
\* A key that also holds the source: no two maps ever share one.
folder_name_key_with_source(placemark) ==
    <<placemark.folder, placemark.name, placemark.source>>

\* folder_name_key (lines 311, 320).
folder_name_key(placemark) == <<placemark.folder, placemark.name>>

\* Lines 310-312: the index built from the first map's placemarks.
RECURSIVE index_primary(_, _)
index_primary(placemarks, primary_map_records) ==
    IF placemarks = <<>> THEN primary_map_records
    ELSE index_primary(Tail(placemarks),
             primary_map_records \cup {folder_name_key(Head(placemarks))})

\* The first map deduplicated against itself: a record whose key an
\* earlier record of the map has is dropped.
merge_primary_dedup(all, primary_map_records, placemarks) ==
    LET first == {q \in 1..Len(placemarks) :
                    \A q0 \in 1..(q - 1) :
                        <<placemarks[q0].folder, placemarks[q0].name>>
                            # <<placemarks[q].folder, placemarks[q].name>>}
        kept  == SelectSeq([q \in 1..Len(placemarks) |-> q], LAMBDA q : q \in first)
        out   == [j \in 1..Len(kept) |-> placemarks[kept[j]]]
    IN  [all_placemarks      |-> all \o out,
         primary_map_records |-> index_primary(placemarks, primary_map_records),
         added_count         |-> Len(out),
         skipped_count       |-> 0]

\* Lines 308-312 (i == 1).
merge_primary(all, primary_map_records, placemarks) ==
    [all_placemarks      |-> all \o placemarks,
     primary_map_records |-> index_primary(placemarks, primary_map_records),
     added_count         |-> Len(placemarks),
     skipped_count       |-> 0]

\* The key of every appended placemark joins the set, so later records are
\* checked against the earlier maps and the map itself as well.
merge_one_accumulating(st, placemark) ==
    IF folder_name_key(placemark) \in st.primary_map_records
    THEN [st EXCEPT !.skipped_count = @ + 1]
    ELSE [st EXCEPT !.all_placemarks = Append(@, placemark),
                    !.primary_map_records = @ \cup {folder_name_key(placemark)},
                    !.added_count = @ + 1]

\* The duplicate test looks at the output instead of the first map's index.
merge_one_against_output(st, placemark) ==
    IF \E j \in 1..Len(st.all_placemarks) :
           folder_name_key(st.all_placemarks[j]) = folder_name_key(placemark)
    THEN [st EXCEPT !.skipped_count = @ + 1]
    ELSE [st EXCEPT !.all_placemarks = Append(@, placemark),
                    !.added_count = @ + 1]

\* A skipped record is counted as added.
merge_one_miscounting(st, placemark) ==
    IF folder_name_key(placemark) \in st.primary_map_records
    THEN [st EXCEPT !.added_count = @ + 1]
    ELSE [st EXCEPT !.all_placemarks = Append(@, placemark),
                    !.added_count = @ + 1]

\* Lines 322-328: one placemark of a later map.
merge_one(st, placemark) ==
    IF folder_name_key(placemark) \in st.primary_map_records
    THEN [st EXCEPT !.skipped_count = @ + 1]
    ELSE [st EXCEPT !.all_placemarks = Append(@, placemark),
                    !.added_count = @ + 1]

\* Lines 316-328 (i > 1): the loop over the placemarks of a later map.
RECURSIVE merge_loop(_, _)
merge_loop(st, placemarks) ==
    IF placemarks = <<>> THEN st
    ELSE merge_loop(merge_one(st, Head(placemarks)), Tail(placemarks))

\* A later map met while the index is still empty takes the place of the
\* first map: all its records are added and its keys fill the index.
merge_secondary_seeding(all, primary_map_records, placemarks) ==
    IF primary_map_records = {}
    THEN merge_primary(all, primary_map_records, placemarks)
    ELSE merge_loop([all_placemarks      |-> all,
                     primary_map_records |-> primary_map_records,
                     added_count         |-> 0,
                     skipped_count       |-> 0], placemarks)

merge_secondary(all, primary_map_records, placemarks) ==
    merge_loop([all_placemarks      |-> all,
                primary_map_records |-> primary_map_records,
                added_count         |-> 0,
                skipped_count       |-> 0], placemarks)

\* --------------------------------------------------------------- inputs
\* Every string over Chars of length n.
RECURSIVE StringsOfLen(_)
StringsOfLen(n) ==
    IF n = 0 THEN {<<>>}
    ELSE {Append(x, c) : x \in StringsOfLen(n - 1), c \in Chars}

\* What the <coordinates> of a Placemark can be in SpecCoord: no element, an
\* element without text, or any string of at most MaxLen characters.
CoordInputs ==
    {CoordAbsent, CoordElem(NoText)}
    \cup {CoordElem(Text(x)) : x \in UNION {StringsOfLen(n) : n \in 0..MaxLen}}

\* SpecWalk: names of Folders and Placemarks, and the coordinates of a
\* Placemark (none, or one that parses).
WalkNames == {NameAbsent, PyNone, "A", "B"}

WalkPlacemarkNames == {NameAbsent, "P"}

WalkCoords == {CoordAbsent, CoordElem(Text(<<"1", ",", "9">>))}

\* What a node can be, apart from its parent.
WalkLabels ==
    {Node("Folder", 0, nm, CoordAbsent) : nm \in WalkNames}
    \cup {Node("Placemark", 0, nm, c) : nm \in WalkPlacemarkNames, c \in WalkCoords}
    \cup {Node("Other", 0, NameAbsent, CoordAbsent)}

\* Node n and its ancestors, in a sequence of parents.
RECURSIVE SelfAndAncestors(_, _)
SelfAndAncestors(pv, n) ==
    IF n = 0 THEN {} ELSE {n} \cup SelfAndAncestors(pv, pv[n])

\* The shapes of the ordered trees of n nodes numbered in document order: a
\* new node hangs under the last node or under one of its ancestors.
RECURSIVE ParentVectors(_)
ParentVectors(n) ==
    IF n = 1 THEN {<<0>>}
    ELSE {Append(x[1], x[2]) :
            x \in {y \in ParentVectors(n - 1) \X (1..(n - 1)) :
                     y[2] \in SelfAndAncestors(y[1], n - 1)}}

\* The tree of shape pv whose nodes carry the labels l.
Tree(pv, l) == [k \in 1..Len(pv) |-> [l[k] EXCEPT !.parent = pv[k]]]

\* Spec: the document of one source is a root element with at most
\* MaxRecords Placemarks under it, each directly or inside a Folder of its
\* own named e.folder. Two identity keys arise: (RootLabel, "X"), ("A", "X").
MergeEntries == [folder : {NameAbsent, "A"}, name : {"X"}]

RECURSIVE FlatDoc(_, _)
FlatDoc(t, es) ==
    IF es = <<>> THEN t
    ELSE LET e == Head(es)
         IN  IF e.folder = NameAbsent
             THEN FlatDoc(Append(t, Node("Placemark", 1, e.name, CoordAbsent)),
                          Tail(es))
             ELSE FlatDoc(t \o <<Node("Folder", 1, e.folder, CoordAbsent),
                                 Node("Placemark", Len(t) + 1, e.name, CoordAbsent)>>,
                          Tail(es))

MergeFiles ==
    {BadFile}
    \cup {File(FlatDoc(<<Node("Other", 0, NameAbsent, CoordAbsent)>>, es)) :
            es \in UNION {[1..n -> MergeEntries] : n \in 0..MaxRecords}}

\* The files a parser that has already been used is given next: one that
\* does not load, one without Placemarks and one with a Placemark.
ReuseFiles ==
    {BadFile,
     File(<<Node("Other", 0, NameAbsent, CoordAbsent)>>),
     File(<<Node("Placemark", 0, "Q", CoordAbsent)>>)}

\* ---------------------------------------------------------------- state
VARIABLES
    pc,                  \* where the program is
    kml,                 \* the file handed to extract_placemarks_from_kml
    placemarks,          \* KMLParser.placemarks
    returned,            \* what extract_placemarks_from_kml returned
    coord_result,        \* what parse_coordinates returned
    map_sources,         \* the mids of the maps to merge
    i,                   \* the position of the loop of line 290
    all_placemarks,      \* line 286
    primary_map_records, \* line 287
    log,                 \* per source: what the loop reported (lines 313-334)
    result,              \* what download_multiple_maps_to_csv returned
    csv_file,            \* the rows save_to_csv wrote
    heap,                \* the list objects, by identity
    parser_ref,          \* the list KMLParser.placemarks names
    all_ref,             \* the list all_placemarks names
    calls,               \* the calls of extract_placemarks_from_kml so far
    requests_data,       \* write_db.py: the requests of the JSON file
    X_API_KEY,           \* the environment variable ("" when unset)
    handled,             \* how many requests the loop of line 163 handled
    success_count,       \* DatabaseWriter.success_count
    error_count,         \* DatabaseWriter.error_count
    skipped_count,       \* DatabaseWriter.skipped_count
    results,             \* DatabaseWriter.results
    returns              \* what execute_request returned, call by call

vars == <<pc, kml, placemarks, returned, coord_result, map_sources, i,
          all_placemarks, primary_map_records, log, result, csv_file,
          heap, parser_ref, all_ref, calls,
          requests_data, X_API_KEY, handled, success_count, error_count,
          skipped_count, results, returns>>

NoResult == [exc |-> "none", latitude |-> NoFloat, longitude |-> NoFloat]

Pending == [status |-> "pending", file_ok |-> FALSE, placemarks |-> <<>>,
            found |-> 0, added |-> 0, skipped |-> 0]

\* The state after KMLParser() and before any call.
InitParser ==
    /\ placemarks = <<>>
    /\ returned = <<>>
    /\ coord_result = NoResult

InitNoMerge ==
    /\ map_sources = <<>>
    /\ i = 0
    /\ all_placemarks = <<>>
    /\ primary_map_records = {}
    /\ log = <<>>
    /\ result = "none"
    /\ csv_file = <<>>

mergeVars == <<map_sources, i, all_placemarks, primary_map_records, log,
               result, csv_file, all_ref>>

\* The list objects of the run, by identity: heap[r] is the content of the
\* list r; parser_ref is the list self.placemarks names and all_ref the list
\* all_placemarks names (0 outside download_multiple_maps_to_csv). The
\* variables placemarks, returned and all_placemarks are the contents of
\* the lists of those names. calls records, for each call of
\* extract_placemarks_from_kml, the list it returned and what it held then.
heapVars == <<heap, parser_ref, calls>>

\* The state after KMLParser(), line 24 having made the list 1.
InitParserHeap ==
    /\ heap = << <<>> >>
    /\ parser_ref = 1
    /\ all_ref = 0
    /\ calls = <<>>

\* The state of a DatabaseWriter after __init__ (write_db.py, lines 19-24).
writerVars == <<requests_data, X_API_KEY, handled, success_count,
                error_count, skipped_count, results, returns>>

InitNoWriter ==
    /\ requests_data = <<>>
    /\ X_API_KEY = PyNone
    /\ handled = 0
    /\ success_count = 0
    /\ error_count = 0
    /\ skipped_count = 0
    /\ results = <<>>
    /\ returns = <<>>

\* ------------------------------------------------------ KMLParser calls
\* parse_coordinates(coord_elem.text) on the <coordinates> of the root.
CallParseCoordinates ==
    /\ pc = "ready"
    /\ kml.ok /\ kml.tree[1].coordinates.elem
    /\ coord_result' = parse_coordinates(kml.tree[1].coordinates)
    /\ pc' = "parsed"
    /\ UNCHANGED <<kml, placemarks, returned>>
    /\ UNCHANGED mergeVars
    /\ UNCHANGED heapVars
    /\ UNCHANGED writerVars

\* extract_placemarks_from_kml(kml, 0).
CallExtract ==
    /\ pc = "ready"
    /\ \E error \in LoadErrors(kml) :
         \E c \in {extract_call(heap, parser_ref, kml, error, 0)} :
             /\ heap' = c.heap
             /\ parser_ref' = c.self
             /\ calls' = Append(calls, CallOf(c, 0, error))
             /\ placemarks' = c.heap[c.self]
             /\ returned' = c.heap[c.ret]
    /\ pc' = "extracted"
    /\ UNCHANGED <<kml, coord_result>>
    /\ UNCHANGED mergeVars
    /\ UNCHANGED writerVars

\* A second extract_placemarks_from_kml on the same KMLParser, for another
\* file.
CallExtractAgain ==
    /\ pc = "extracted"
    /\ \E f \in ReuseFiles :
         \E error \in LoadErrors(f) :
         \E c \in {extract_call(heap, parser_ref, f, error, 0)} :
             /\ kml' = f
             /\ heap' = c.heap
             /\ parser_ref' = c.self
             /\ calls' = Append(calls, CallOf(c, 0, error))
             /\ placemarks' = c.heap[c.self]
             /\ returned' = c.heap[c.ret]
    /\ pc' = "reextracted"
    /\ UNCHANGED coord_result
    /\ UNCHANGED mergeVars
    /\ UNCHANGED writerVars

InitCoord ==
    /\ pc = "ready"
    /\ kml \in {File(<<Node("Placemark", 0, "X", c)>>) : c \in CoordInputs}
    /\ InitParser
    /\ InitParserHeap
    /\ InitNoMerge
    /\ InitNoWriter

NextCoord == CallParseCoordinates \/ CallExtract

SpecCoord == InitCoord /\ [][NextCoord]_vars

InitWalk ==
    /\ pc = "ready"
    /\ \/ kml = BadFile
       \/ \E n \in 1..MaxNodes : \E pv \in ParentVectors(n) :
            \E l \in [1..n -> WalkLabels] : kml = File(Tree(pv, l))
    /\ InitParser
    /\ InitParserHeap
    /\ InitNoMerge
    /\ InitNoWriter

NextWalk == CallExtract

SpecWalk == InitWalk /\ [][NextWalk]_vars

\* One KMLParser used for two files in turn.
NextReuse == CallExtract \/ CallExtractAgain

SpecReuse == InitWalk /\ [][NextReuse]_vars

\* ---------------------------------------- download_multiple_maps_to_csv
\* One action is one iteration of the loop of line 290, by what happens to
\* the source at position i; the download and the file it leaves are the
\* environment's choice.
InLoop == pc = "loop" /\ i <= Len(map_sources)

\* A failed download ends the run: False is returned and the later maps
\* are never looked at.
DownloadAborts ==
    /\ InLoop
    /\ log' = [log EXCEPT ![i].status = "download_failed"]
    /\ pc' = "done"
    /\ result' = "False"
    /\ UNCHANGED <<i, kml, placemarks, returned, coord_result, map_sources,
                   all_placemarks, primary_map_records, csv_file, all_ref>>
    /\ UNCHANGED heapVars
    /\ UNCHANGED writerVars

\* download_from_maps_url returns False (lines 300, 333-334).
DownloadFails ==
    /\ InLoop
    /\ log' = [log EXCEPT ![i].status = "download_failed"]
    /\ i' = i + 1
    /\ UNCHANGED <<pc, kml, placemarks, returned, coord_result, map_sources,
                   all_placemarks, primary_map_records, result, csv_file,
                   all_ref>>
    /\ UNCHANGED heapVars
    /\ UNCHANGED writerVars

\* The download succeeds and extract_placemarks_from_kml returns an empty
\* list, for a file that does not parse or one without Placemarks
\* (lines 303-305, 331-332).
NoPlacemarks ==
    /\ InLoop
    /\ \E f \in MergeFiles :
         \E error \in LoadErrors(f) :
         \E c \in {extract_call(heap, parser_ref, f, error, map_sources[i])} :
             /\ c.heap[c.ret] = <<>>
             /\ kml' = f
             /\ heap' = c.heap
             /\ parser_ref' = c.self
             /\ calls' = Append(calls, CallOf(c, map_sources[i], error))
             /\ placemarks' = c.heap[c.self]
             /\ returned' = c.heap[c.ret]
             /\ all_placemarks' = c.heap[all_ref]
             /\ log' = [log EXCEPT ![i].status = "no_placemarks",
                                   ![i].file_ok = f.ok]
    /\ i' = i + 1
    /\ UNCHANGED <<pc, coord_result, map_sources, primary_map_records,
                   result, csv_file, all_ref>>
    /\ UNCHANGED writerVars

\* The first map yields placemarks (lines 306-313).
MergePrimary ==
    /\ InLoop
    /\ i = 1
    /\ \E f \in MergeFiles :
         \E error \in LoadErrors(f) :
         \E c \in {extract_call(heap, parser_ref, f, error, map_sources[i])} :
         \E m \in {merge_primary(c.heap[all_ref], primary_map_records,
                                 c.heap[c.ret])} :
         \E h \in {[c.heap EXCEPT ![all_ref] = m.all_placemarks]} :
             /\ c.heap[c.ret] # <<>>
             /\ kml' = f
             /\ heap' = h
             /\ parser_ref' = c.self
             /\ calls' = Append(calls, CallOf(c, map_sources[i], error))
             /\ placemarks' = h[c.self]
             /\ returned' = h[c.ret]
             /\ all_placemarks' = h[all_ref]
             /\ primary_map_records' = m.primary_map_records
             /\ log' = [log EXCEPT ![i] =
                          [status |-> "primary", file_ok |-> TRUE,
                           placemarks |-> c.heap[c.ret],
                           found |-> Len(c.heap[c.ret]),
                           added |-> m.added_count,
                           skipped |-> m.skipped_count]]
    /\ i' = i + 1
    /\ UNCHANGED <<pc, coord_result, map_sources, result, csv_file, all_ref>>
    /\ UNCHANGED writerVars

\* A later map yields placemarks (lines 314-330).
MergeSecondary ==
    /\ InLoop
    /\ i # 1
    /\ \E f \in MergeFiles :
         \E error \in LoadErrors(f) :
         \E c \in {extract_call(heap, parser_ref, f, error, map_sources[i])} :
         \E m \in {merge_secondary(c.heap[all_ref], primary_map_records,
                                 c.heap[c.ret])} :
         \E h \in {[c.heap EXCEPT ![all_ref] = m.all_placemarks]} :
             /\ c.heap[c.ret] # <<>>
             /\ kml' = f
             /\ heap' = h
             /\ parser_ref' = c.self
             /\ calls' = Append(calls, CallOf(c, map_sources[i], error))
             /\ placemarks' = h[c.self]
             /\ returned' = h[c.ret]
             /\ all_placemarks' = h[all_ref]
             /\ primary_map_records' = m.primary_map_records
             /\ log' = [log EXCEPT ![i] =
                          [status |-> "merged", file_ok |-> TRUE,
                           placemarks |-> c.heap[c.ret],
                           found |-> Len(c.heap[c.ret]),
                           added |-> m.added_count,
                           skipped |-> m.skipped_count]]
    /\ i' = i + 1
    /\ UNCHANGED <<pc, coord_result, map_sources, result, csv_file, all_ref>>
    /\ UNCHANGED writerVars

\* After the loop (lines 337-356): the rows are saved and True is returned,
\* or nothing is saved and False is returned.
Finish ==
    /\ pc = "loop"
    /\ i > Len(map_sources)
    /\ IF all_placemarks # <<>>
       THEN csv_file' = all_placemarks /\ result' = "True"
       ELSE csv_file' = csv_file /\ result' = "False"
    /\ pc' = "done"
    /\ UNCHANGED <<kml, placemarks, returned, coord_result, map_sources, i,
                   all_placemarks, primary_map_records, log, all_ref>>
    /\ UNCHANGED heapVars
    /\ UNCHANGED writerVars

\* The state on entry, for a list of at most NumSources maps with the mids
\* 1, 2, ...
Init ==
    /\ pc = "loop"
    /\ kml = BadFile
    /\ InitParser
    /\ map_sources \in {[k \in 1..n |-> k] : n \in 0..NumSources}
    /\ i = 1
    /\ all_placemarks = <<>>
    /\ primary_map_records = {}
    /\ log = [k \in 1..Len(map_sources) |-> Pending]
    /\ result = "none"
    /\ csv_file = <<>>
    /\ heap = << <<>>, <<>> >>
    /\ all_ref = 1
    /\ parser_ref = 2
    /\ calls = <<>>
    /\ InitNoWriter

Next ==
    \/ DownloadFails
    \/ NoPlacemarks
    \/ MergePrimary
    \/ MergeSecondary
    \/ Finish

Spec == Init /\ [][Next]_vars

\* ===================================================== write_db.py
\* str.upper on the method names of the model.
Upper(x) ==
    CASE x = "patch" -> "PATCH"
      [] x = "post"  -> "POST"
      [] x = "get"   -> "GET"
      [] OTHER       -> x

\* What the HTTP call of lines 47-55 does: the response is fine, or
\* requests.patch, requests.post or raise_for_status raises a
\* RequestException.
Responses == {"ok", "RequestException"}

\* execute_request (lines 26-91) for a writer whose results are res: the
\* value returned, the results afterwards and the exception that leaves the
\* call. http_method is a str, or None for a JSON null; a missing key reads
\* as "" (line 28).
execute_request(res, request_data, x_api_key, response) ==
    IF request_data.http_method = PyNone
    THEN [ret |-> PyNone, results |-> res, raised |-> "AttributeError"]
    ELSE LET method == Upper(request_data.http_method)
             url    == request_data.url
         IN  IF ~Truthy(method) \/ ~Truthy(url)
             THEN [ret |-> "False", results |-> res, raised |-> "none"]
             ELSE IF ~Truthy(x_api_key)
             THEN [ret |-> PyNone, results |-> res, raised |-> "none"]
             ELSE IF method \notin {"PATCH", "POST"}
             THEN [ret |-> "False", results |-> res, raised |-> "none"]
             ELSE IF response = "ok"
             THEN [ret |-> "True",
                   results |-> Append(res, [method |-> method,
                                            status |-> "success"]),
                   raised |-> "none"]
             ELSE [ret |-> "False",
                   results |-> Append(res, [method |-> method,
                                            status |-> "error"]),
                   raised |-> "none"]

\* The loop body counting a request that was not executed for want of an
\* API key as skipped.
count_request_skipping(counts, ret) ==
    IF ret = "True"
    THEN [counts EXCEPT !.success_count = @ + 1]
    ELSE IF ret = PyNone
    THEN [counts EXCEPT !.skipped_count = @ + 1]
    ELSE [counts EXCEPT !.error_count = @ + 1]

\* Lines 166-169: `if self.execute_request(request_data):` counts a success,
\* and the else branch, which False and None both take, an error.
count_request(counts, ret) ==
    IF ret = "True"
    THEN [counts EXCEPT !.success_count = @ + 1]
    ELSE [counts EXCEPT !.error_count = @ + 1]

\* The requests a JSON file can hold: methods in either case, one the tool
\* does not support, none, a null, and a request without url.
RequestInputs ==
    {[http_method |-> m, url |-> "u"] : m \in {"PATCH", "post", "GET", "", PyNone}}
    \cup {[http_method |-> "PATCH", url |-> ""]}

\* One iteration of the loop of line 163. An exception that is no
\* RequestException leaves execute_request and process_json_file and is
\* caught in main (line 231), which ends the program.
HandleRequest ==
    /\ pc = "requests"
    /\ handled < Len(requests_data)
    /\ \E response \in Responses :
         \E r \in {execute_request(results, requests_data[handled + 1],
                                   X_API_KEY, response)} :
         \E c \in {count_request([success_count |-> success_count,
                                   error_count   |-> error_count,
                                   skipped_count |-> skipped_count], r.ret)} :
             /\ results' = r.results
             /\ IF r.raised = "none"
                THEN /\ success_count' = c.success_count
                     /\ error_count' = c.error_count
                     /\ skipped_count' = c.skipped_count
                     /\ returns' = Append(returns, r.ret)
                     /\ handled' = handled + 1
                     /\ pc' = pc
                ELSE /\ pc' = "aborted"
                     /\ UNCHANGED <<success_count, error_count, skipped_count,
                                    returns, handled>>
    /\ UNCHANGED <<requests_data, X_API_KEY>>
    /\ UNCHANGED <<kml, placemarks, returned, coord_result>>
    /\ UNCHANGED mergeVars
    /\ UNCHANGED heapVars

\* process_json_file returns before the loop: the user does not confirm
\* (lines 154-159).
Cancel ==
    /\ pc = "requests"
    /\ handled = 0
    /\ requests_data # <<>>
    /\ pc' = "summary"
    /\ UNCHANGED <<kml, placemarks, returned, coord_result>>
    /\ UNCHANGED mergeVars
    /\ UNCHANGED heapVars
    /\ UNCHANGED writerVars

\* The loop has handled every request, or the list is empty (lines
\* 134-137); main goes on to show_summary (line 222).
ShowSummary ==
    /\ pc = "requests"
    /\ handled = Len(requests_data)
    /\ pc' = "summary"
    /\ UNCHANGED <<kml, placemarks, returned, coord_result>>
    /\ UNCHANGED mergeVars
    /\ UNCHANGED heapVars
    /\ UNCHANGED writerVars

\* main (lines 204-222): a new DatabaseWriter, a file of at most MaxRequests
\* requests, and X_API_KEY unset, empty or set.
InitWrite ==
    /\ pc = "requests"
    /\ kml = BadFile
    /\ InitParser
    /\ InitParserHeap
    /\ InitNoMerge
    /\ requests_data \in UNION {[1..n -> RequestInputs] : n \in 0..MaxRequests}
    /\ X_API_KEY \in {PyNone, "", "k"}
    /\ handled = 0
    /\ success_count = 0
    /\ error_count = 0
    /\ skipped_count = 0
    /\ results = <<>>
    /\ returns = <<>>

NextWrite == HandleRequest \/ Cancel \/ ShowSummary

SpecWrite == InitWrite /\ [][NextWrite]_vars

\* ============================================================ properties
\* The identity key of a Record, as the specification defines it.
IdentityKey(r) == <<r.folder, r.name>>

\* The RecordSet the extraction of source k returned (empty while the source
\* is pending and when it failed).
RecordSetOf(k) == log[k].placemarks

Loaded(k) == log[k].status \in {"primary", "merged"}

Failed(k) == log[k].status \in {"download_failed", "no_placemarks"}

PrimaryLoaded == Len(log) >= 1 /\ log[1].status = "primary"

\* The keys of the records of the source at position 1.
PrimaryKeys ==
    IF PrimaryLoaded
    THEN {IdentityKey(RecordSetOf(1)[q]) : q \in 1..Len(RecordSetOf(1))}
    ELSE {}

\* How often r occurs in the sequence s.
Count(s, r) == Cardinality({j \in 1..Len(s) : s[j] = r})

\* The records of the output that carry the mid of source k.
FromSource(k) == SelectSeq(all_placemarks, LAMBDA r : r.source = map_sources[k])

NotPrimaryKey(r) == IdentityKey(r) \notin PrimaryKeys

\* C1: when the primary source loaded with at least one record, the output
\* holds no record of another source whose key is the key of a primary
\* record, and every primary record is in the output.
C1_NoSecondaryCopyOfPrimaryKey ==
    PrimaryLoaded =>
        /\ \A j \in 1..Len(all_placemarks) :
             all_placemarks[j].source # map_sources[1]
                => IdentityKey(all_placemarks[j]) \notin PrimaryKeys
        /\ \A q \in 1..Len(RecordSetOf(1)) :
             \E j \in 1..Len(all_placemarks) : all_placemarks[j] = RecordSetOf(1)[q]

\* C1 witness: the run ended, the primary loaded, and a later source held a
\* record with a primary key, which was skipped.
C1_Witness ==
    /\ pc = "done"
    /\ PrimaryLoaded
    /\ \E k \in 2..Len(log) :
         /\ Loaded(k)
         /\ \E q \in 1..Len(RecordSetOf(k)) :
              IdentityKey(RecordSetOf(k)[q]) \in PrimaryKeys

\* C2: the output starts with the primary source's records, all of them and
\* in their order; with the primary as the only source the output, and the
\* rows saved, are that RecordSet.
C2_PrimaryIsPrefix ==
    (Len(log) >= 1 /\ log[1].status # "pending") =>
        LET rs == RecordSetOf(1)
        IN  /\ Len(all_placemarks) >= Len(rs)
            /\ SubSeq(all_placemarks, 1, Len(rs)) = rs
            /\ Len(map_sources) = 1 => all_placemarks = rs
            /\ (Len(map_sources) = 1 /\ pc = "done") => csv_file = rs

\* C2 witness: a run over the primary alone ended, and two of the primary's
\* records share a key.
C2_Witness ==
    /\ pc = "done"
    /\ Len(map_sources) = 1
    /\ PrimaryLoaded
    /\ \E q1, q2 \in 1..Len(RecordSetOf(1)) :
         q1 # q2 /\ IdentityKey(RecordSetOf(1)[q1]) = IdentityKey(RecordSetOf(1)[q2])

\* C3 as stated: the key of every record appended to the output is added to
\* the running identity-key set, so once the primary has seeded the set it
\* holds the key of every record of the output.
C3_KeyOfEveryOutputRecordInSet ==
    PrimaryLoaded =>
        \A j \in 1..Len(all_placemarks) :
            IdentityKey(all_placemarks[j]) \in primary_map_records

\* What the output is when only the keys of the source at position 1 decide:
\* that source's records, then of each later source the records whose key is
\* not a primary key.
RECURSIVE ExpectedOutput(_)
ExpectedOutput(k) ==
    IF k = 0 THEN <<>>
    ELSE ExpectedOutput(k - 1)
         \o (IF k = 1 THEN RecordSetOf(1)
             ELSE SelectSeq(RecordSetOf(k), NotPrimaryKey))

\* C3 amended: the identity-key set holds the keys of the source at position
\* 1 and is not grown by later sources; a record of a later source is
\* appended exactly when its key is not in that set, in input order.
C3_KeySetIsPrimaryOnly ==
    /\ primary_map_records = PrimaryKeys
    /\ all_placemarks = ExpectedOutput(Len(log))

\* C3 witness: the primary loaded, and the output holds two records of later
\* sources with one key, which is not in the identity-key set.
C3_Witness ==
    /\ PrimaryLoaded
    /\ \E j1, j2 \in 1..Len(all_placemarks) :
         /\ j1 < j2
         /\ all_placemarks[j1].source # map_sources[1]
         /\ IdentityKey(all_placemarks[j1]) = IdentityKey(all_placemarks[j2])
         /\ IdentityKey(all_placemarks[j1]) \notin primary_map_records

\* C4: records of one source whose key is not the key of a primary record
\* of another source are all in the output, as often as the source holds
\* them.
C4_NoDedupWithinSource ==
    \A k \in 1..Len(log) :
        Loaded(k) =>
            \A q \in 1..Len(RecordSetOf(k)) :
                (k = 1 \/ NotPrimaryKey(RecordSetOf(k)[q]))
                    => Count(all_placemarks, RecordSetOf(k)[q])
                       = Count(RecordSetOf(k), RecordSetOf(k)[q])

\* C4 witness: the primary loaded and a later source holds two records with
\* one key that is not a primary key.
C4_Witness ==
    /\ PrimaryLoaded
    /\ \E k \in 2..Len(log) :
         /\ Loaded(k)
         /\ \E q1, q2 \in 1..Len(RecordSetOf(k)) :
              /\ q1 # q2
              /\ RecordSetOf(k)[q1] = RecordSetOf(k)[q2]
              /\ NotPrimaryKey(RecordSetOf(k)[q1])

\* C5: a source that failed has no record in the output, and when the run
\* has ended every source was handled and each source that loaded has its
\* records (those that are no copy of a primary key) in the output.
C5_FailureDoesNotAbort ==
    /\ \A k \in 1..Len(log) : Failed(k) => FromSource(k) = <<>>
    /\ pc = "done" =>
         /\ \A k \in 1..Len(log) : log[k].status # "pending"
         /\ \A k \in 1..Len(log) :
              Loaded(k) =>
                  FromSource(k) = IF k = 1 THEN RecordSetOf(k)
                                  ELSE SelectSeq(RecordSetOf(k), NotPrimaryKey)
         /\ result = IF all_placemarks # <<>> THEN "True" ELSE "False"

\* C5 witness: the run ended with a failed source between two sources whose
\* records are in the output.
C5_Witness ==
    /\ pc = "done"
    /\ \E k1, k2, k3 \in 1..Len(log) :
         /\ k1 < k2 /\ k2 < k3
         /\ Failed(k2)
         /\ FromSource(k1) # <<>>
         /\ FromSource(k3) # <<>>

\* The sum of the added counts of the sources 1..k.
RECURSIVE SumAdded(_)
SumAdded(k) == IF k = 0 THEN 0 ELSE SumAdded(k - 1) + log[k].added

\* C6: for every source that was merged, found = added + skipped and found
\* is the size of its RecordSet; the primary adds all it found; the output
\* is as long as the added counts sum to.
C6_CountsAddUp ==
    /\ \A k \in 1..Len(log) :
         Loaded(k) =>
             /\ log[k].found = log[k].added + log[k].skipped
             /\ log[k].found = Len(RecordSetOf(k))
             /\ log[k].added = Len(FromSource(k))
             /\ k = 1 => log[k].added = log[k].found
    /\ Len(all_placemarks) = SumAdded(Len(log))

\* C6 witness: a later source had one record added and another skipped.
C6_Witness ==
    \E k \in 2..Len(log) :
        Loaded(k) /\ log[k].added > 0 /\ log[k].skipped > 0

\* ------------------------------------------------------------ the walker
\* The Placemark nodes of a tree, in document order.
Leaves(t) == SelectSeq([k \in 1..Len(t) |-> k], LAMBDA k : t[k].kind = "Placemark")

\* The declared name of a container: empty when the name is absent or empty.
DeclaredName(name) == IF name \in {NameAbsent, PyNone} THEN "" ELSE name

\* The names of the Folders among node n and its ancestors, root first.
RECURSIVE FolderNamesDownTo(_, _)
FolderNamesDownTo(t, n) ==
    IF n = 0 THEN <<>>
    ELSE FolderNamesDownTo(t, t[n].parent)
         \o (IF t[n].kind = "Folder" THEN <<DeclaredName(t[n].name)>> ELSE <<>>)

RECURSIVE JoinSlash(_)
JoinSlash(names) ==
    IF names = <<>> THEN ""
    ELSE IF Len(names) = 1 THEN names[1]
    ELSE names[1] \o "/" \o JoinSlash(Tail(names))

\* The folder the specification gives the leaf n.
JoinedFolder(t, n) ==
    LET path == JoinSlash(FolderNamesDownTo(t, t[n].parent))
    IN  IF path = "" THEN RootLabel ELSE path

Extracted == pc = "extracted" /\ kml.ok

\* C7: the extraction emits exactly one Record per Placemark node of the
\* document, whatever its ancestors are.
C7_OneRecordPerLeaf ==
    Extracted => Len(returned) = Len(Leaves(kml.tree))

\* The leaf n has no container above it, or the outermost one has a name
\* that is not empty.
OutermostNamed(t, n) ==
    LET names == FolderNamesDownTo(t, t[n].parent)
    IN  names = <<>> \/ names[1] # ""

\* C8: the folder of the Record of every leaf is the names of its ancestor
\* containers joined with "/", root first, and the root label exactly when
\* that path is empty. Stated for the documents where every leaf has its
\* Record, so that the j-th Record is the j-th leaf, and for the leaves
\* whose outermost container has a name that is not empty.
C8_FolderIsJoinedAncestorNames ==
    (Extracted /\ Len(returned) = Len(Leaves(kml.tree))) =>
        \A j \in 1..Len(returned) :
            OutermostNamed(kml.tree, Leaves(kml.tree)[j])
                => returned[j].folder = JoinedFolder(kml.tree, Leaves(kml.tree)[j])

\* --------------------------------------------------------- coordinates
BothOrNeither(r) == r.latitude.none = r.longitude.none

\* C9: parse_coordinates returns both values or neither and no exception
\* leaves it, for every input; every Record the traversal emits has both
\* values or neither.
C9_BothOrNeither ==
    /\ pc = "parsed" => (coord_result.exc = "none" /\ BothOrNeither(coord_result))
    /\ \A j \in 1..Len(returned) : BothOrNeither(returned[j])
    /\ \A j \in 1..Len(placemarks) : BothOrNeither(placemarks[j])

\* C9 witness: parse_coordinates was called on a text with two components of
\* which one is no number, and returned the null pair.
C9_Witness ==
    /\ pc = "parsed"
    /\ parse_coordinates_try(kml.tree[1].coordinates).exc = "ValueError"
    /\ coord_result.latitude.none /\ coord_result.longitude.none

RECURSIVE Pow10(_)
Pow10(k) == IF k = 0 THEN 1 ELSE 10 * Pow10(k - 1)

\* -bound <= m / 10^e <= bound
InRange(f, bound) ==
    /\ f.m <= bound * Pow10(f.e)
    /\ 0 - f.m <= bound * Pow10(f.e)

\* C10: a non-null result is the second and the first component of the
\* input, and lies in the geographic ranges.
C10_SwappedAndInRange ==
    (pc = "parsed" /\ ~coord_result.latitude.none) =>
        LET parts == Split(Strip(kml.tree[1].coordinates.text))
        IN  /\ coord_result.latitude = PyFloat(parts[2]).val
            /\ coord_result.longitude = PyFloat(parts[1]).val
            /\ InRange(coord_result.latitude, 90)
            /\ InRange(coord_result.longitude, 180)

\* C11: a call of extract_placemarks_from_kml on a file that does not load
\* raises nothing and returns an empty list, and after it the parser holds
\* no records, whatever an earlier call on the same parser returned.
C11_FailedLoadReturnsEmpty ==
    /\ \A n \in 1..Len(calls) :
          calls[n].error # "none" =>
              /\ calls[n].raised = "none"
              /\ calls[n].ref # 0
              /\ calls[n].snapshot = <<>>
    /\ (calls # <<>> /\ calls[Len(calls)].error # "none") =>
          /\ returned = <<>>
          /\ placemarks = <<>>
          /\ heap[parser_ref] = <<>>

\* C11 witness: a parser whose first extraction returned records was then
\* given a file that does not load.
C11_Witness ==
    /\ pc = "reextracted"
    /\ Len(calls) = 2
    /\ calls[1].error = "none" /\ calls[1].snapshot # <<>>
    /\ calls[2].error # "none"
    /\ ~kml.ok

\* C12: during and after a merge run, every list that
\* extract_placemarks_from_kml returned for a source still holds the records
\* it held when it was returned, in the same order, and none of these lists
\* is the list all_placemarks, which the run extends.
C12_SourceListsUntouched ==
    pc \in {"loop", "done"} =>
        \A n \in 1..Len(calls) :
            /\ calls[n].ref # 0
            /\ calls[n].ref # all_ref
            /\ heap[calls[n].ref] = calls[n].snapshot
            /\ \A k \in 1..(n - 1) : calls[k].ref # calls[n].ref

\* C12 witness: a finished run in which the one parser extracted records
\* for two sources and the output grew with records of both.
C12_Witness ==
    /\ pc = "done"
    /\ \E k, n \in 1..Len(calls) :
          /\ k < n
          /\ calls[k].snapshot # <<>> /\ calls[n].snapshot # <<>>
          /\ calls[k].snapshot # calls[n].snapshot
          /\ log[calls[k].source].added > 0
          /\ log[calls[n].source].added > 0
    /\ Len(heap[all_ref]) > Len(heap[parser_ref])

\* C13: the identity-key set is empty unless the source at position 1 loaded
\* with records; when that source failed to download or yielded no records,
\* the set stays empty, no later source has a record skipped, and every
\* record of every later source that loaded is in the output.
C13_FailedPrimaryLeavesBaselineEmpty ==
    /\ ~PrimaryLoaded => primary_map_records = {}
    /\ (Len(log) >= 1 /\ Failed(1)) =>
          \A k \in 2..Len(log) :
              /\ log[k].skipped = 0
              /\ Loaded(k) => /\ log[k].added = Len(RecordSetOf(k))
                              /\ FromSource(k) = RecordSetOf(k)

\* C13 witness: the run ended, the source at position 1 failed, and two
\* later sources that loaded hold a record with the same key.
C13_Witness ==
    /\ pc = "done"
    /\ Len(log) >= 3
    /\ Failed(1)
    /\ \E k1, k2 \in 2..Len(log) :
          /\ k1 < k2
          /\ Loaded(k1) /\ Loaded(k2)
          /\ \E q1 \in 1..Len(RecordSetOf(k1)), q2 \in 1..Len(RecordSetOf(k2)) :
                IdentityKey(RecordSetOf(k1)[q1]) = IdentityKey(RecordSetOf(k2)[q2])

\* How many of the first n values of returns satisfy the test of line 166.
RECURSIVE Successes(_)
Successes(n) ==
    IF n = 0 THEN 0
    ELSE Successes(n - 1) + (IF returns[n] = "True" THEN 1 ELSE 0)

\* C14: in process_json_file, once i requests have been handled,
\* success_count + error_count = i and skipped_count = 0; a request for which
\* execute_request returned True is a success and any other, the one that
\* returned None for want of X_API_KEY included, an error; results has no
\* more entries than success_count + error_count; and when the loop ends
\* every request of the list has been counted.
C14_EveryRequestCountedOnce ==
    pc \in {"requests", "summary", "aborted"} =>
        /\ success_count + error_count = handled
        /\ skipped_count = 0
        /\ Len(returns) = handled
        /\ success_count = Successes(handled)
        /\ error_count = handled - Successes(handled)
        /\ \A n \in 1..handled :
              (~Truthy(X_API_KEY) /\ Truthy(requests_data[n].http_method)
                   /\ Truthy(requests_data[n].url))
                  => returns[n] = PyNone
        /\ Len(results) <= success_count + error_count
        /\ (pc = "summary" /\ returns # <<>>) => handled = Len(requests_data)

\* C14 witness: with X_API_KEY unset the loop handled a whole list holding a
\* well-formed request, which was skipped and counted as an error, and
\* results has fewer entries than requests were counted.
C14_Witness ==
    /\ pc = "summary"
    /\ X_API_KEY = PyNone
    /\ handled = Len(requests_data)
    /\ \E n \in 1..handled : returns[n] = PyNone
    /\ error_count = handled
    /\ Len(results) < success_count + error_count

====
